---- MODULE Spec2Model ----
(***************************************************************************)
(* Column resolution, row views and statement references of               *)
(* tokio-postgres (src/tokio-postgres/src/row.rs, to_statement.rs).        *)
(*                                                                         *)
(* Strings are modelled as sequences of byte values, slots are zero-based  *)
(* as in the source (column i of the source is columns[i + 1] here), and   *)
(* Option<usize>::None is NoSlot.                                          *)
(***************************************************************************)
EXTENDS Integers, Sequences, FiniteSets, TLC

VARIABLES
    rcols, ridx, rslot, rpc,        \* column index resolver: inputs, result, position
    row, call, ret,                 \* row views: the row, the last call, its outcome
    sref, calls, out, pc, req       \* statement reference: request, collaborator log, outcome

vars == <<rcols, ridx, rslot, rpc, row, call, ret, sref, calls, out, pc, req>>
resolveVars == <<rcols, ridx, rslot, rpc>>
rowVars == <<row, call, ret>>
stmtVars == <<sref, calls, out, pc, req>>

----------------------------------------------------------------------------
(* Bounds *)

MaxCols == 3
MaxRowCols == 2
MaxPos == 2
MaxStorage == 3
MaxReqs == 2

----------------------------------------------------------------------------
(* Byte strings *)

\* '@' 'A' '`' 'a': two letters differing in case, and two non-letters that
\* differ by the same bit as the letters do.
NameBytes == {64, 65, 96, 97}

SeqsUpTo(S, n) == UNION {[1..k -> S] : k \in 0..n}

Names == [1..1 -> NameBytes] \cup {<<97, 97>>, <<65, 97>>, <<97, 96>>}

\* The names the row views are built from and asked for.
RowNames == {<<97>>, <<65>>}
AskNames == RowNames \cup {<<96>>}

SetMin(S) == CHOOSE x \in S : \A y \in S : x <= y

\* u8::to_ascii_lowercase
ToAsciiLowercase(b) == IF b >= 65 /\ b <= 90 THEN b + 32 ELSE b

\* str::eq_ignore_ascii_case
EqIgnoreAsciiCase(s, t) ==
    /\ Len(s) = Len(t)
    /\ \A i \in 1..Len(s) : ToAsciiLowercase(s[i]) = ToAsciiLowercase(t[i])

\* usize's Display: the decimal digits, most significant first
RECURSIVE UsizeToString(_)
UsizeToString(n) ==
    IF n < 10 THEN <<48 + n>>
    ELSE Append(UsizeToString(n \div 10), 48 + (n % 10))

----------------------------------------------------------------------------
(* Column index resolver *)

NoSlot == -1

AsName(c) == c.name

\* Iterator::position: the lowest of the zero-based slots that satisfy the
\* predicate, given as the set of those slots
Position(hits) == IF hits = {} THEN NoSlot ELSE SetMin(hits)

Slots(columns) == 0..(Len(columns) - 1)

IdxUsizeOffByOne(p, columns) == IF p > Len(columns) THEN NoSlot ELSE p

IdxUsize(p, columns) == IF p >= Len(columns) THEN NoSlot ELSE p

IdxStrOnePass(name, columns) ==
    Position({i \in Slots(columns) : EqIgnoreAsciiCase(AsName(columns[i + 1]), name)})

IdxStrLastExact(name, columns) ==
    LET hits == {i \in Slots(columns) : AsName(columns[i + 1]) = name}
    IN  IF hits # {} THEN CHOOSE x \in hits : \A y \in hits : y <= x
        ELSE Position({i \in Slots(columns) :
                          EqIgnoreAsciiCase(AsName(columns[i + 1]), name)})

IdxStr(name, columns) ==
    LET exact == Position({i \in Slots(columns) : AsName(columns[i + 1]) = name})
    IN  IF exact # NoSlot THEN exact
        ELSE Position({i \in Slots(columns) :
                          EqIgnoreAsciiCase(AsName(columns[i + 1]), name)})

\* An index is a position or a name; &T forwards to T.
PosIndex(p) == [isName |-> FALSE, pos |-> p, name |-> <<>>]
NameIndex(n) == [isName |-> TRUE, pos |-> 0, name |-> n]

Idx(i, columns) ==
    IF i.isName THEN IdxStr(i.name, columns) ELSE IdxUsize(i.pos, columns)

\* The index's Display, as idx.to_string() renders it
IndexToString(i) == IF i.isName THEN i.name ELSE UsizeToString(i.pos)

Positions == (0..MaxPos) \cup {10 + MaxPos}

----------------------------------------------------------------------------
(* Errors and outcomes *)

\* An error is recorded by the constructor that built it and what it was given.
NoErr == [kind |-> "", column |-> <<>>, cause |-> "", idx |-> NoSlot, want |-> "", have |-> ""]

\* Error::column(String)
ErrorColumn(s) == [NoErr EXCEPT !.kind = "Column", !.column = s]

\* Error::from_sql(cause, idx)
ErrorFromSql(c, i) ==
    [NoErr EXCEPT !.kind = "FromSql", !.cause = c.cause, !.idx = i,
                  !.want = c.want, !.have = c.have]

\* Error::parse(io::Error)
ErrorParse(c) == [NoErr EXCEPT !.kind = "Parse", !.cause = c]

Cause(name) == [cause |-> name, want |-> "", have |-> ""]

\* WrongType::new::<T>(ty)
WrongTypeNew(T, ty) == [cause |-> "WrongType", want |-> T, have |-> ty]

\* A decoded value: SQL NULL decoded to "no value", or the decoded content.
NoVal == [null |-> TRUE, bytes |-> <<>>]
SomeVal(b) == [null |-> FALSE, bytes |-> b]

Ok(v) == [tag |-> "Ok", val |-> v, err |-> NoErr, fault |-> "", pidx |-> <<>>]
Err(e) == [tag |-> "Err", val |-> NoVal, err |-> e, fault |-> "", pidx |-> <<>>]

\* A fatal fault of an indexing expression (slice or Vec index out of bounds)
PanicBounds ==
    [tag |-> "Panic", val |-> NoVal, err |-> NoErr, fault |-> "index out of bounds",
     pidx |-> <<>>]

\* panic!("error retrieving column {}: {}", idx, err)
PanicGet(i, e) ==
    [tag |-> "Panic", val |-> NoVal, err |-> e, fault |-> "error retrieving column",
     pidx |-> IndexToString(i)]

\* What one get_inner call did: its outcome, whether the resolver ran and the
\* slot it gave, whether the decode capability's accepts and decode ran.
Step(r, resolved, slot, accepts, decode) ==
    [res |-> r, resolved |-> resolved, slot |-> slot, accepts |-> accepts, decode |-> decode]

NoStep == Step(Ok(NoVal), FALSE, NoSlot, FALSE, FALSE)

FormatMsg ==
    <<102, 111, 114, 109, 97, 116, 32, 109, 117, 115, 116, 32, 98, 101, 32, 98, 105,
      110, 97, 114, 121, 32, 116, 111, 32, 115, 117, 112, 112, 111, 114, 116, 32, 112,
      97, 114, 97, 109, 101, 116, 101, 114, 32, 101, 120, 116, 114, 97, 99, 116, 105,
      111, 110>>

\* Row::fail_non_binary_format
FailNonBinaryFormat == ErrorColumn(FormatMsg)

----------------------------------------------------------------------------
(* The tuple body and the decode capability *)

BodyBytes == {0, 1, 65, 255}

\* The length prefix as a signed number (one byte wide here, four on the wire)
Signed(b) == IF b >= 128 THEN b - 256 ELSE b

NoRange == [some |-> FALSE, start |-> 0, end |-> 0]
SomeRange(a, b) == [some |-> TRUE, start |-> a, end |-> b]

\* DataRowBody::ranges: body.len fields, each a NULL sentinel or a length
\* prefix and that many bytes; the buffer must end with the last field.
RECURSIVE RangesFrom(_, _, _)
RangesFrom(storage, pos, remaining) ==
    IF remaining = 0
    THEN IF pos = Len(storage)
         THEN [ok |-> TRUE, cause |-> "", ranges |-> <<>>]
         ELSE [ok |-> FALSE, cause |-> "InvalidInput", ranges |-> <<>>]
    ELSE IF pos >= Len(storage)
    THEN [ok |-> FALSE, cause |-> "UnexpectedEof", ranges |-> <<>>]
    ELSE LET n == Signed(storage[pos + 1])
             next == IF n < 0 THEN pos + 1 ELSE pos + 1 + n
             this == IF n < 0 THEN NoRange ELSE SomeRange(pos + 1, pos + 1 + n)
         IN  IF n >= 0 /\ Len(storage) - (pos + 1) < n
             THEN [ok |-> FALSE, cause |-> "UnexpectedEof", ranges |-> <<>>]
             ELSE LET rest == RangesFrom(storage, next, remaining - 1)
                  IN  IF rest.ok
                      THEN [rest EXCEPT !.ranges = <<this>> \o rest.ranges]
                      ELSE rest

BodyRanges(body) == RangesFrom(body.storage, 0, body.len)

Bodies == [len : 0..MaxStorage, storage : SeqsUpTo(BodyBytes, MaxStorage)]

Types == {"CHAR", "TEXT"}
Targets == {"i8", "Str", "OptStr"}

\* FromSql::accepts of the target types
Accepts(T, ty) == IF T = "i8" THEN ty = "CHAR" ELSE ty = "TEXT"

\* str::from_utf8 on the bytes of BodyBytes: 255 occurs in no UTF-8 text, the
\* others are ASCII.
Utf8Valid(b) == \A i \in 1..Len(b) : b[i] < 128

DecOk(v) == [ok |-> TRUE, val |-> v, cause |-> Cause("")]
DecErr(c) == [ok |-> FALSE, val |-> NoVal, cause |-> Cause(c)]

\* FromSql::from_sql_nullable: buf is the field's bytes, or absent for NULL
FromSqlNullable(T, ty, buf) ==
    IF ~buf.some
    THEN IF T = "OptStr" THEN DecOk(NoVal) ELSE DecErr("WasNull")
    ELSE IF T = "i8"
         THEN IF Len(buf.bytes) = 0 THEN DecErr("UnexpectedEof")
              ELSE IF Len(buf.bytes) > 1 THEN DecErr("InvalidBufferSize")
              ELSE DecOk(SomeVal(<<Signed(buf.bytes[1])>>))
         ELSE IF Utf8Valid(buf.bytes) THEN DecOk(SomeVal(buf.bytes))
              ELSE DecErr("Utf8Error")

----------------------------------------------------------------------------
(* Row and SimpleQueryRow *)

Columns == [name : RowNames, type : Types]
SimpleColumns == [name : RowNames]

NoBody == [len |-> 0, storage |-> <<>>]
NoRow ==
    [kind |-> "None", columns |-> <<>>, body |-> NoBody, ranges |-> <<>>,
     extract_allowed |-> FALSE]

\* Row::new: Ok(row) or Err(parse error)
RowNewOf(columns, body, extract_allowed) ==
    LET parsed == BodyRanges(body)
    IN  IF ~parsed.ok
        THEN [ok |-> FALSE, err |-> ErrorParse(parsed.cause), row |-> NoRow]
        ELSE [ok |-> TRUE, err |-> NoErr,
              row |-> [kind |-> "Row", columns |-> columns, body |-> body,
                       ranges |-> parsed.ranges, extract_allowed |-> extract_allowed]]

\* SimpleQueryRow::new; the struct has no extract_allowed field
SimpleQueryRowNewOf(columns, body) ==
    LET parsed == BodyRanges(body)
    IN  IF ~parsed.ok
        THEN [ok |-> FALSE, err |-> ErrorParse(parsed.cause), row |-> NoRow]
        ELSE [ok |-> TRUE, err |-> NoErr,
              row |-> [kind |-> "Simple", columns |-> columns, body |-> body,
                       ranges |-> parsed.ranges, extract_allowed |-> FALSE]]

\* The slice buffer()[range], or absent; fault: an index was out of bounds.
NoBuf == [fault |-> FALSE, some |-> FALSE, bytes |-> <<>>]
FaultBuf == [fault |-> TRUE, some |-> FALSE, bytes |-> <<>>]

\* Row::col_buffer: self.ranges[idx], then self.body.buffer()[range]
ColBuffer(r, idx) ==
    IF idx < 0 \/ idx >= Len(r.ranges) THEN FaultBuf
    ELSE LET range == r.ranges[idx + 1]
         IN  IF ~range.some THEN NoBuf
             ELSE IF range.start > range.end \/ range.end > Len(r.body.storage)
                  THEN FaultBuf
                  ELSE [fault |-> FALSE, some |-> TRUE,
                        bytes |-> SubSeq(r.body.storage, range.start + 1, range.end)]

\* Row::get_inner after the format gate
RowGetResolved(r, i, T) ==
    LET idx == Idx(i, r.columns)
    IN  IF idx = NoSlot
        THEN Step(Err(ErrorColumn(IndexToString(i))), TRUE, NoSlot, FALSE, FALSE)
        ELSE IF idx >= Len(r.columns)
        THEN Step(PanicBounds, TRUE, idx, FALSE, FALSE)
        ELSE LET ty == r.columns[idx + 1].type
             IN  IF ~Accepts(T, ty)
                 THEN Step(Err(ErrorFromSql(WrongTypeNew(T, ty), idx)),
                           TRUE, idx, TRUE, FALSE)
                 ELSE LET buf == ColBuffer(r, idx)
                          dec == FromSqlNullable(T, ty, buf)
                      IN  IF buf.fault THEN Step(PanicBounds, TRUE, idx, TRUE, FALSE)
                          ELSE IF dec.ok THEN Step(Ok(dec.val), TRUE, idx, TRUE, TRUE)
                          ELSE Step(Err(ErrorFromSql(dec.cause, idx)),
                                    TRUE, idx, TRUE, TRUE)

RowGetInnerNoAccepts(r, i, T) ==
    IF ~r.extract_allowed
    THEN Step(Err(FailNonBinaryFormat), FALSE, NoSlot, FALSE, FALSE)
    ELSE LET idx == Idx(i, r.columns)
         IN  IF idx = NoSlot
             THEN Step(Err(ErrorColumn(IndexToString(i))), TRUE, NoSlot, FALSE, FALSE)
             ELSE IF idx >= Len(r.columns)
             THEN Step(PanicBounds, TRUE, idx, FALSE, FALSE)
             ELSE LET ty == r.columns[idx + 1].type
                      buf == ColBuffer(r, idx)
                      dec == FromSqlNullable(T, ty, buf)
                  IN  IF buf.fault THEN Step(PanicBounds, TRUE, idx, FALSE, FALSE)
                      ELSE IF dec.ok THEN Step(Ok(dec.val), TRUE, idx, FALSE, TRUE)
                      ELSE Step(Err(ErrorFromSql(dec.cause, idx)),
                                TRUE, idx, FALSE, TRUE)

\* Row::get_inner
RowGetInner(r, i, T) ==
    IF ~r.extract_allowed
    THEN Step(Err(FailNonBinaryFormat), FALSE, NoSlot, FALSE, FALSE)
    ELSE RowGetResolved(r, i, T)

\* SimpleQueryRow::get_inner: the target is Option<&str>, the type Type::TEXT
SimpleGetInner(r, i) ==
    LET idx == Idx(i, r.columns)
    IN  IF idx = NoSlot
        THEN Step(Err(ErrorColumn(IndexToString(i))), TRUE, NoSlot, FALSE, FALSE)
        ELSE LET buf == ColBuffer(r, idx)
                 dec == FromSqlNullable("OptStr", "TEXT", buf)
             IN  IF buf.fault THEN Step(PanicBounds, TRUE, idx, FALSE, FALSE)
                 ELSE IF dec.ok THEN Step(Ok(dec.val), TRUE, idx, FALSE, TRUE)
                 ELSE Step(Err(ErrorFromSql(dec.cause, idx)), TRUE, idx, FALSE, TRUE)

\* Row::get and SimpleQueryRow::get: an error becomes a fatal fault
Unwrap(s, i) ==
    IF s.res.tag = "Err" THEN [s EXCEPT !.res = PanicGet(i, s.res.err)] ELSE s

----------------------------------------------------------------------------
(* Statement reference *)

Formats == {"Text", "Binary"}

\* ProtocolEncodingFormat's Debug rendering
FormatDebug(f) == IF f = "Text" THEN <<84, 101, 120, 116>> ELSE <<66, 105, 110, 97, 114, 121>>

\* A prepared statement: its identity and the format it was negotiated with.
Statements == [name : {"s1", "s2"}, result_format : Formats]
NoStmt == [name |-> "", result_format |-> ""]

Queries == {"SELECT 1", "SELECT $1"}

\* format!("the requested encoding '{:?}' does not mat the statements encoding '{:?}'")
EncodingMsg(requested, held) ==
    <<116, 104, 101, 32, 114, 101, 113, 117, 101, 115, 116, 101, 100, 32, 101, 110,
      99, 111, 100, 105, 110, 103, 32, 39>>
    \o FormatDebug(requested)
    \o <<39, 32, 100, 111, 101, 115, 32, 110, 111, 116, 32, 109, 97, 116, 32, 116, 104,
         101, 32, 115, 116, 97, 116, 101, 109, 101, 110, 116, 115, 32, 101, 110, 99,
         111, 100, 105, 110, 103, 32, 39>>
    \o FormatDebug(held)
    \o <<39>>

NoRef == [tag |-> "None", result_format |-> "", stmt |-> NoStmt, query |-> ""]

\* <Statement as ToStatement>::__convert
ConvertStatement(s, result_format) ==
    [tag |-> "Statement", result_format |-> result_format, stmt |-> s, query |-> ""]

\* <str as ToStatement>::__convert
ConvertStr(q, result_format) ==
    [tag |-> "Query", result_format |-> result_format, stmt |-> NoStmt, query |-> q]

\* <String as ToStatement>::__convert
ConvertString(q, result_format) ==
    [tag |-> "Query", result_format |-> result_format, stmt |-> NoStmt, query |-> q]

NoOut == [tag |-> "None", stmt |-> NoStmt, err |-> NoErr]
OkStmt(s) == [tag |-> "Ok", stmt |-> s, err |-> NoErr]
ErrOut(e) == [tag |-> "Err", stmt |-> NoStmt, err |-> e]

\* What Client::prepare_with_result_format may answer: any statement, or an
\* error of the client.
PrepareOutcomes ==
    {OkStmt(s) : s \in Statements}
        \cup {ErrOut([NoErr EXCEPT !.kind = k]) : k \in {"Closed", "Db"}}

\* ToStatementType::into_statement up to its await: the outcome, or the call
\* of Client::prepare_with_result_format it makes
IntoStatement(t) ==
    IF t.tag = "Statement"
    THEN IF t.result_format # t.stmt.result_format
         THEN [prepare |-> FALSE, query |-> "", format |-> "",
               out |-> ErrOut(ErrorColumn(EncodingMsg(t.result_format, t.stmt.result_format)))]
         ELSE [prepare |-> FALSE, query |-> "", format |-> "", out |-> OkStmt(t.stmt)]
    ELSE [prepare |-> TRUE, query |-> t.query, format |-> t.result_format, out |-> NoOut]

AwaitedChecked(t, answer) ==
    IF answer.tag = "Ok" /\ answer.stmt.result_format # t.result_format
    THEN ErrOut(ErrorColumn(EncodingMsg(t.result_format, answer.stmt.result_format)))
    ELSE answer

\* into_statement after the await: the collaborator's answer is the result
Awaited(t, answer) == answer

----------------------------------------------------------------------------
(* Specification of the resolver: __idx applied to drawn inputs *)

ResolverColumns == SeqsUpTo([name : Names], MaxCols)

ResolveIdle ==
    /\ rcols = <<>>
    /\ ridx = PosIndex(0)
    /\ rslot = NoSlot
    /\ rpc = "idle"

RowIdle ==
    /\ row = NoRow
    /\ call = [op |-> "none", idx |-> PosIndex(0), T |-> ""]
    /\ ret = NoStep

StmtIdle ==
    /\ sref = NoRef
    /\ calls = <<>>
    /\ out = NoOut
    /\ pc = "idle"
    /\ req = 0

InitResolve ==
    /\ rcols \in ResolverColumns
    /\ ridx \in {PosIndex(p) : p \in Positions} \cup {NameIndex(n) : n \in Names}
    /\ rslot = NoSlot
    /\ rpc = "start"
    /\ RowIdle
    /\ StmtIdle

\* <usize as RowIndex>::__idx
ResolveUsize ==
    /\ rpc = "start"
    /\ ~ridx.isName
    /\ rslot' = IdxUsize(ridx.pos, rcols)
    /\ rpc' = "done"
    /\ UNCHANGED <<rcols, ridx, rowVars, stmtVars>>

\* <str as RowIndex>::__idx
ResolveStr ==
    /\ rpc = "start"
    /\ ridx.isName
    /\ rslot' = IdxStr(ridx.name, rcols)
    /\ rpc' = "done"
    /\ UNCHANGED <<rcols, ridx, rowVars, stmtVars>>

NextResolve == ResolveUsize \/ ResolveStr

SpecResolve == InitResolve /\ [][NextResolve]_vars

----------------------------------------------------------------------------
(* Specification of the row views.  A row is immutable once built, so what a *)
(* call returns depends on the row and the call alone: each behaviour builds *)
(* one row and makes one call on it.                                          *)

InitRow == ResolveIdle /\ RowIdle /\ StmtIdle

RowIndexes == {PosIndex(p) : p \in Positions} \cup {NameIndex(n) : n \in AskNames}

\* Row::new
RowNew ==
    /\ row.kind = "None"
    /\ \E columns \in SeqsUpTo(Columns, MaxRowCols), body \in Bodies,
          extract_allowed \in BOOLEAN :
          LET made == RowNewOf(columns, body, extract_allowed)
          IN  /\ row' = made.row
              /\ ret' = IF made.ok THEN NoStep
                        ELSE Step(Err(made.err), FALSE, NoSlot, FALSE, FALSE)
    /\ call' = [op |-> "Row::new", idx |-> PosIndex(0), T |-> ""]
    /\ UNCHANGED <<resolveVars, stmtVars>>

\* SimpleQueryRow::new
SimpleQueryRowNew ==
    /\ row.kind = "None"
    /\ \E columns \in SeqsUpTo(SimpleColumns, MaxRowCols), body \in Bodies :
          LET made == SimpleQueryRowNewOf(columns, body)
          IN  /\ row' = made.row
              /\ ret' = IF made.ok THEN NoStep
                        ELSE Step(Err(made.err), FALSE, NoSlot, FALSE, FALSE)
    /\ call' = [op |-> "SimpleQueryRow::new", idx |-> PosIndex(0), T |-> ""]
    /\ UNCHANGED <<resolveVars, stmtVars>>

\* Row::try_get
RowTryGet ==
    /\ row.kind = "Row"
    /\ call.op = "Row::new"
    /\ \E i \in RowIndexes, T \in Targets :
          /\ ret' = RowGetInner(row, i, T)
          /\ call' = [op |-> "try_get", idx |-> i, T |-> T]
    /\ UNCHANGED <<row, resolveVars, stmtVars>>

\* Row::get
RowGet ==
    /\ row.kind = "Row"
    /\ call.op = "Row::new"
    /\ \E i \in RowIndexes, T \in Targets :
          /\ ret' = Unwrap(RowGetInner(row, i, T), i)
          /\ call' = [op |-> "get", idx |-> i, T |-> T]
    /\ UNCHANGED <<row, resolveVars, stmtVars>>

\* SimpleQueryRow::try_get
SimpleTryGet ==
    /\ row.kind = "Simple"
    /\ call.op = "SimpleQueryRow::new"
    /\ \E i \in RowIndexes :
          /\ ret' = SimpleGetInner(row, i)
          /\ call' = [op |-> "try_get", idx |-> i, T |-> "OptStr"]
    /\ UNCHANGED <<row, resolveVars, stmtVars>>

\* SimpleQueryRow::get
SimpleGet ==
    /\ row.kind = "Simple"
    /\ call.op = "SimpleQueryRow::new"
    /\ \E i \in RowIndexes :
          /\ ret' = Unwrap(SimpleGetInner(row, i), i)
          /\ call' = [op |-> "get", idx |-> i, T |-> "OptStr"]
    /\ UNCHANGED <<row, resolveVars, stmtVars>>

NextRow ==
    \/ RowNew
    \/ SimpleQueryRowNew
    \/ RowTryGet
    \/ RowGet
    \/ SimpleTryGet
    \/ SimpleGet

SpecRow == InitRow /\ [][NextRow]_vars

----------------------------------------------------------------------------
(* Specification of the statement reference *)

InitStmt == ResolveIdle /\ RowIdle /\ StmtIdle

\* A call starts: the reference is built anew for it (ToStatement::__convert)
Begin ==
    /\ pc \in {"idle", "done"}
    /\ req < MaxReqs
    /\ req' = req + 1
    /\ out' = NoOut
    /\ pc' = "converted"
    /\ UNCHANGED <<calls, resolveVars, rowVars>>

\* a caller passes a prepared statement
RequestStatement ==
    /\ \E s \in Statements, f \in Formats : sref' = ConvertStatement(s, f)
    /\ Begin

\* a caller passes a &str
RequestStr ==
    /\ \E q \in Queries, f \in Formats : sref' = ConvertStr(q, f)
    /\ Begin

\* a caller passes a String
RequestString ==
    /\ \E q \in Queries, f \in Formats : sref' = ConvertString(q, f)
    /\ Begin

\* into_statement, the Statement arm: returns at once
ResolveStatement ==
    /\ pc = "converted"
    /\ ~IntoStatement(sref).prepare
    /\ out' = IntoStatement(sref).out
    /\ pc' = "done"
    /\ UNCHANGED <<sref, calls, req, resolveVars, rowVars>>

\* into_statement, the Query arm: calls the collaborator and awaits it
ResolveQuery ==
    /\ pc = "converted"
    /\ IntoStatement(sref).prepare
    /\ calls' = Append(calls, [req |-> req, query |-> IntoStatement(sref).query,
                               format |-> IntoStatement(sref).format,
                               answer |-> NoOut])
    /\ pc' = "awaiting"
    /\ UNCHANGED <<sref, out, req, resolveVars, rowVars>>

\* the collaborator answers and into_statement returns
PrepareReturns ==
    /\ pc = "awaiting"
    /\ \E answer \in PrepareOutcomes :
          /\ out' = Awaited(sref, answer)
          /\ calls' = [calls EXCEPT ![Len(calls)].answer = answer]
    /\ pc' = "done"
    /\ UNCHANGED <<sref, req, resolveVars, rowVars>>

NextStmt ==
    \/ RequestStatement
    \/ RequestStr
    \/ RequestString
    \/ ResolveStatement
    \/ ResolveQuery
    \/ PrepareReturns

SpecStmt == InitStmt /\ [][NextStmt]_vars

----------------------------------------------------------------------------
(* Properties *)

IsGet == call.op \in {"get", "try_get"}
OnRow == row.kind = "Row" /\ IsGet
OnSimple == row.kind = "Simple" /\ IsGet

\* The error a call ended with: the returned one, or the one get's fault wraps
Failed == ret.res.tag = "Err" \/ (ret.res.tag = "Panic" /\ call.op = "get" /\ ret.res.err # NoErr)

\* Two bytes are the same letter of the ASCII alphabet in either case
SameLetter(a, b) ==
    \/ a = b
    \/ a \in 65..90 /\ b = a + 32
    \/ b \in 65..90 /\ a = b + 32

MatchesIgnoringCase(s, t) ==
    Len(s) = Len(t) /\ \A k \in 1..Len(s) : SameLetter(s[k], t[k])

ExactSlots(name, columns) == {k \in 0..(Len(columns) - 1) : columns[k + 1].name = name}
CaseSlots(name, columns) ==
    {k \in 0..(Len(columns) - 1) : MatchesIgnoringCase(columns[k + 1].name, name)}

\* C1: a name resolves to the lowest slot whose name equals it; failing that,
\* to the lowest slot whose name equals it up to ASCII case; failing that, to
\* nothing.  A lower slot that matches only up to case does not win over an
\* exact match.
C1_TwoPass ==
    (rpc = "done" /\ ridx.isName) =>
        LET exact == ExactSlots(ridx.name, rcols)
            loose == CaseSlots(ridx.name, rcols)
        IN  /\ exact # {} => rslot = SetMin(exact)
            /\ (exact = {} /\ loose # {}) => rslot = SetMin(loose)
            /\ loose = {} => rslot = NoSlot

C1_Witness ==
    /\ rpc = "done"
    /\ ridx.isName
    /\ rslot > 0
    /\ rslot \in ExactSlots(ridx.name, rcols)
    /\ \E k \in CaseSlots(ridx.name, rcols) : k < rslot

\* C2: on a row built with the binary flag false, every get and try_get ends
\* with an error of kind Format, not Column, and neither the resolver nor the
\* decode capability has run.
C2_FormatKind ==
    (OnRow /\ ~row.extract_allowed) =>
        /\ Failed
        /\ ret.res.err.kind = "Format"
        /\ ret.res.err.kind # "Column"
        /\ ~ret.resolved
        /\ ~ret.accepts
        /\ ~ret.decode

\* The decimal rendering of a position below one hundred
Decimal(p) == IF p < 10 THEN <<48 + p>> ELSE <<48 + (p \div 10), 48 + (p % 10)>>

\* C3: on a binary row of n columns, try_get at a position p >= n returns a
\* Column error carrying p as given and is no fatal fault; a position p < n
\* resolves to slot p.
C3_Position ==
    (row.kind = "Row" /\ call.op = "try_get" /\ row.extract_allowed /\ ~call.idx.isName) =>
        LET p == call.idx.pos
            n == Len(row.columns)
        IN  /\ p >= n =>
                /\ ret.res.tag = "Err"
                /\ ret.res.err.kind = "Column"
                /\ ret.res.err.column = Decimal(p)
            /\ p < n => (ret.resolved /\ ret.slot = p)

C3_Witness ==
    /\ row.kind = "Row"
    /\ call.op = "try_get"
    /\ row.extract_allowed
    /\ ~call.idx.isName
    /\ Len(row.columns) > 0
    /\ call.idx.pos = Len(row.columns)
    /\ ret.res.tag = "Err"
    /\ ret.res.err.column = Decimal(call.idx.pos)

\* The outcome of the call op with index i and target T on row r
CallOutcome(r, op, i, T) ==
    LET inner == IF r.kind = "Row" THEN RowGetInner(r, i, T) ELSE SimpleGetInner(r, i)
    IN  IF op = "get" THEN Unwrap(inner, i) ELSE inner

\* The value or the error, leaving out how a fault's message spells the index
Result(s) == [s.res EXCEPT !.pidx = <<>>]

ByPositionInRange ==
    /\ row.kind \in {"Row", "Simple"}
    /\ IsGet
    /\ ~call.idx.isName
    /\ call.idx.pos < Len(row.columns)

NameOfCalled == row.columns[call.idx.pos + 1].name

\* One range per column: the rows a well-behaved server's tuples give
WellFormed == Len(row.ranges) = Len(row.columns)

\* C4 as stated: get/try_get by position i and by the exact name of column i
\* give the same result, also when several columns carry that name.  (Stated
\* here for the rows with one range per column, where it already fails.)
C4_PositionEqualsName ==
    (ByPositionInRange /\ WellFormed) =>
        Result(ret) = Result(CallOutcome(row, call.op, NameIndex(NameOfCalled), call.T))

\* C4 as amended: they give the same result when no column at a lower slot
\* carries the same name.
C4_PositionEqualsFirstName ==
    (ByPositionInRange /\ ExactSlots(NameOfCalled, row.columns) \cap 0..(call.idx.pos - 1) = {}) =>
        Result(ret) = Result(CallOutcome(row, call.op, NameIndex(NameOfCalled), call.T))

C4_Witness ==
    /\ ByPositionInRange
    /\ row.kind = "Row"
    /\ call.idx.pos = 0
    /\ Len(row.columns) > 1
    /\ row.columns[2].name = NameOfCalled
    /\ ret.res.tag = "Ok"
    /\ ~ret.res.val.null
    /\ CallOutcome(row, call.op, PosIndex(1), call.T).res # ret.res

\* C5: every row that construction returns has one range per column.
C5_OneRangePerColumn ==
    row.kind \in {"Row", "Simple"} => Len(row.ranges) = Len(row.columns)

\* The collaborator calls made for the request being resolved
CallsOfRequest == {k \in 1..Len(calls) : calls[k].req = req}

\* C6: resolving a reference that holds a prepared statement never calls the
\* collaborator; it ends with an error of kind Encoding when the requested
\* format differs from the statement's, and with the statement itself when
\* the formats agree.
C6_EncodingKind ==
    (pc = "done" /\ sref.tag = "Statement") =>
        /\ CallsOfRequest = {}
        /\ sref.result_format # sref.stmt.result_format =>
               (out.tag = "Err" /\ out.err.kind = "Encoding")
        /\ sref.result_format = sref.stmt.result_format => out = OkStmt(sref.stmt)

\* The kind of the error a failed decode is returned as
DecodeKind == ErrorFromSql(Cause("Utf8Error"), 0).kind

ResolvedOnBinaryRow ==
    /\ OnRow
    /\ row.extract_allowed
    /\ ret.resolved
    /\ ret.slot # NoSlot
    /\ ret.slot < Len(row.columns)

TypeOfSlot == row.columns[ret.slot + 1].type

C8_FreshPrepare ==
    (sref.tag = "Query" /\ pc \in {"awaiting", "done"}) =>
        /\ Cardinality(CallsOfRequest) = 1
        /\ \A k \in CallsOfRequest :
              /\ calls[k].query = sref.query
              /\ calls[k].format = sref.result_format
              /\ pc = "done" => out = calls[k].answer

C8_Witness ==
    /\ sref.tag = "Query"
    /\ pc = "done"
    /\ req = 2
    /\ out.tag = "Ok"
    /\ out.stmt.result_format # sref.result_format
    /\ Len(calls) = 2

\* The bytes of slot k of the row's tuple, absent for NULL
FieldOf(k) ==
    IF row.ranges[k + 1].some
    THEN [some |-> TRUE,
          bytes |-> [j \in 1..(row.ranges[k + 1].end - row.ranges[k + 1].start) |->
                        row.body.storage[row.ranges[k + 1].start + j]]]
    ELSE [some |-> FALSE, bytes |-> <<>>]

\* The text a field holds: no value for NULL, the bytes when they are text
TextOf(f) ==
    IF ~f.some THEN Ok(NoVal)
    ELSE IF \E j \in 1..Len(f.bytes) : f.bytes[j] = 255
         THEN Err(ErrorFromSql(Cause("Utf8Error"), ret.slot))
         ELSE Ok(SomeVal(f.bytes))

\* C9: on a SimpleQueryRow, try_get gives a Column error exactly when the
\* index does not resolve, and otherwise the text decode of the slot's bytes,
\* no value for a NULL slot; it never gives a Format error.
C9_SimpleText ==
    (OnSimple /\ call.op = "try_get") =>
        /\ ret.res.tag \in {"Ok", "Err"}
        /\ (ret.res.tag = "Err" /\ ret.res.err.kind = "Column") <=> (ret.slot = NoSlot)
        /\ ret.res.err.kind # "Format"
        /\ (ret.slot # NoSlot /\ ret.slot < Len(row.ranges)) =>
              ret.res = TextOf(FieldOf(ret.slot))

\* C10: for every constructed row and every index that resolves, the slot is
\* a position of the parsed ranges and a present range lies within the
\* buffer, and try_get ends with a value or an error, not a fatal fault.
C10_InBounds ==
    (row.kind \in {"Row", "Simple"} /\ call.op = "try_get" /\ ret.slot # NoSlot) =>
        /\ ret.slot < Len(row.ranges)
        /\ \A k \in 1..Len(row.ranges) :
              row.ranges[k].some =>
                  (row.ranges[k].start <= row.ranges[k].end
                   /\ row.ranges[k].end <= Len(row.body.storage))
        /\ ret.res.tag # "Panic"

====
